---- MODULE Spec2Model ----
(***************************************************************************)
(* A model of the task subsystem of the kernel (os/src/task/mod.rs,        *)
(* os/src/task/context.rs, os/src/sync/up.rs): the task table behind the   *)
(* UPSafeCell, the round-robin scheduler, the instrumented __switch and    *)
(* the stop-watch time accounting.  The kernel is a uniprocessor: there is *)
(* one thread of control, whose position is pc.                            *)
(***************************************************************************)
EXTENDS Integers, FiniteSets, Sequences, TLC

\* ------------------------------------------------------------------ bounds

\* Capacity of the task table (config::MAX_APP_NUM): the scheduler works for
\* any capacity, and the model bounds it.
MAX_APP_NUM == 3

\* The microsecond clock is read in 0..MaxTime.
MaxTime == 2

\* Traps are taken only while fewer than MaxDispatch dispatches have happened.
MaxDispatch == 5

\* Traps are taken only while "All applications completed!" has been printed
\* fewer than MaxCompleted times.
MaxCompleted == 2

\* ------------------------------------------------------------------- state

VARIABLES
  num_app,               \* TaskManager.num_app
  tasks,                 \* TaskManagerInner.tasks: slot -> TaskControlBlock
  current_task,          \* TaskManagerInner.current_task
  stop_watch,            \* TaskManagerInner.stop_watch
  borrowed,              \* the RefCell's borrow flag of TaskManager.inner
  SWITCH_TIME_START,     \* static mut SWITCH_TIME_START
  SWITCH_TIME_COUNT,     \* static mut SWITCH_TIME_COUNT
  time,                  \* the clock read by get_time_us()
  pc,                    \* where the processor is
  cause,                 \* the trap being handled on the running kernel stack
  next,                  \* run_next_task's local: the result of find_next_task
  current_task_cx_ptr,   \* __switch's first argument (a slot, or UNUSED)
  next_task_cx_ptr,      \* __switch's second argument (a slot)
  completed,             \* how many times "All applications completed!" was printed
  dispatched             \* history: how many times each slot was made Running

vars == << num_app, tasks, current_task, stop_watch, borrowed,
           SWITCH_TIME_START, SWITCH_TIME_COUNT, time, pc, cause, next,
           current_task_cx_ptr, next_task_cx_ptr, completed, dispatched >>

Slots == 0 .. (MAX_APP_NUM - 1)

\* Option<usize>::None, and the null of the two pointer locals.
NONE == -1

\* The address of run_first_task's local _unused.
UNUSED == -2

TaskStatus == {"UnInit", "Ready", "Running", "Exited"}

\* ----------------------------------------------------------- task context

\* TaskContext::zero_init: ra = 0, sp = 0 (the s registers are zero in both
\* constructors and are never read by the kernel's Rust code).
zero_init == [ra |-> "null", sp |-> 0]

\* loader::init_app_cx(i): the kernel stack pointer of slot i, a non-null
\* address that identifies the slot's kernel stack.
init_app_cx(i) == i + 1

\* TaskContext::goto_restore: ra = __restore, sp = kstack_ptr.
goto_restore(kstack_ptr) == [ra |-> "__restore", sp |-> kstack_ptr]

\* The context switch::__switch stores for a task that is switched out
\* inside the wrapper __switch: it resumes after the call (line 40), on its
\* own kernel stack.
saved_cx(i) == [ra |-> "switch_ret", sp |-> i + 1]

\* --------------------------------------------------------------- TASK_MANAGER

\* A TASK_MANAGER that initialises every slot of the table, not the first n.
initial_tasks_all(n) ==
  [i \in Slots |->
     [task_cx |-> goto_restore(init_app_cx(i)), task_status |-> "Ready",
      kernel_time |-> 0, user_time |-> 0]]

\* lazy_static TASK_MANAGER: every slot UnInit with a zero context, then the
\* first n slots get goto_restore(init_app_cx(i)) and Ready.
initial_tasks(n) ==
  [i \in Slots |->
     IF i < n
     THEN [task_cx |-> goto_restore(init_app_cx(i)), task_status |-> "Ready",
           kernel_time |-> 0, user_time |-> 0]
     ELSE [task_cx |-> zero_init, task_status |-> "UnInit",
           kernel_time |-> 0, user_time |-> 0]]

Init ==
  /\ num_app \in 0 .. MAX_APP_NUM
  /\ tasks = initial_tasks(num_app)
  /\ current_task = 0
  /\ stop_watch = 0
  /\ borrowed = FALSE
  /\ SWITCH_TIME_START = 0
  /\ SWITCH_TIME_COUNT = 0
  /\ time = 0
  /\ pc = "boot"
  /\ cause = "none"
  /\ next = NONE
  /\ current_task_cx_ptr = NONE
  /\ next_task_cx_ptr = NONE
  /\ completed = 0
  /\ dispatched = [i \in Slots |-> 0]

\* ------------------------------------------------------------- pure parts

\* A refresh_stop_watch that subtracts the wrong way round.
refresh_stop_watch_reversed(now, start_time) == start_time - now

\* TaskManagerInner::refresh_stop_watch's result: the new stop_watch (now)
\* minus the old one.
refresh_stop_watch(now, start_time) == now - start_time

\* The scan of find_next_task: the ids id, id+1, ..., end-1, each taken
\* modulo n, up to the first one whose slot is Ready.
RECURSIVE find_from(_, _, _, _)
find_from(tk, id, end, n) ==
  IF id >= end THEN NONE
  ELSE IF tk[id % n].task_status = "Ready" THEN id % n
  ELSE find_from(tk, id + 1, end, n)

\* A find_next_task whose range ends one early: current itself is not examined.
find_next_task_skips_current(tk, current, n) ==
  find_from(tk, current + 1, current + n, n)

\* A find_next_task whose range starts at current instead of current + 1.
find_next_task_from_current(tk, current, n) ==
  find_from(tk, current, current + n, n)

\* TaskManager::find_next_task: (current+1 .. current+num_app+1) mapped
\* modulo num_app, the first Ready one.
find_next_task(tk, current, n) == find_from(tk, current + 1, current + n + 1, n)

\* A mark_current_suspended that drops the elapsed time.
mark_current_suspended_no_credit(tk, current, delta) ==
  [tk EXCEPT ![current].task_status = "Ready"]

\* A mark_current_suspended that credits the time and leaves the status.
mark_current_suspended_keeps_status(tk, current, delta) ==
  [tk EXCEPT ![current].kernel_time = @ + delta]

\* The task table after TaskManager::mark_current_suspended.
mark_current_suspended(tk, current, delta) ==
  [tk EXCEPT ![current].kernel_time = @ + delta,
             ![current].task_status = "Ready"]

\* A mark_current_exited that also resets the context of the exited task.
mark_current_exited_clears_cx(tk, current, delta) ==
  [tk EXCEPT ![current].kernel_time = @ + delta,
             ![current].task_status = "Exited",
             ![current].task_cx = zero_init]

\* The task table after TaskManager::mark_current_exited.
mark_current_exited(tk, current, delta) ==
  [tk EXCEPT ![current].kernel_time = @ + delta,
             ![current].task_status = "Exited"]

\* The task table after TaskManager::user_time_start.
user_time_start(tk, current, delta) ==
  [tk EXCEPT ![current].kernel_time = @ + delta]

\* A user_time_end that credits the kernel counter.
user_time_end_credits_kernel(tk, current, delta) ==
  [tk EXCEPT ![current].kernel_time = @ + delta]

\* The task table after TaskManager::user_time_end.
user_time_end(tk, current, delta) ==
  [tk EXCEPT ![current].user_time = @ + delta]

\* A run_first_task that leaves the status of slot 0 as it is.
mark_first_running_forgotten(tk) == tk

\* The task table after run_first_task's borrow: slot 0 Running.
mark_first_running(tk) == [tk EXCEPT ![0].task_status = "Running"]

\* A run_next_task that leaves the status of the next task as it is.
mark_next_running_forgotten(tk, nxt) == tk

\* The task table after run_next_task's borrow: slot nxt Running.
mark_next_running(tk, nxt) == [tk EXCEPT ![nxt].task_status = "Running"]

\* A borrow that is still held when __switch is called.
drop_inner_missing == TRUE

\* drop(inner) before __switch: the borrow flag afterwards.
drop_inner == FALSE

RECURSIVE SumTo(_, _)
SumTo(f, n) == IF n < 0 THEN 0 ELSE f[n] + SumTo(f, n - 1)

TotalDispatched == SumTo(dispatched, MAX_APP_NUM - 1)

\* ----------------------------------------------------------------- actions

\* UPSafeCell::exclusive_access on a cell that is already borrowed:
\* RefCell::borrow_mut panics and the kernel stops.
AlreadyBorrowed ==
  /\ pc' = "already_borrowed"
  /\ UNCHANGED << num_app, tasks, current_task, stop_watch, borrowed,
                  SWITCH_TIME_START, SWITCH_TIME_COUNT, time, cause, next,
                  current_task_cx_ptr, next_task_cx_ptr, completed, dispatched >>

\* The clock advances.
Tick ==
  /\ time < MaxTime
  /\ time' = time + 1
  /\ UNCHANGED << num_app, tasks, current_task, stop_watch, borrowed,
                  SWITCH_TIME_START, SWITCH_TIME_COUNT, pc, cause, next,
                  current_task_cx_ptr, next_task_cx_ptr, completed, dispatched >>

\* run_first_task, lines 70-77: borrow, mark slot 0 Running, take the
\* pointer to its context, refresh the stop watch, drop the borrow.
RunFirstTask ==
  /\ pc = "boot"
  /\ IF borrowed THEN AlreadyBorrowed
     ELSE /\ tasks' = mark_first_running(tasks)
          /\ dispatched' = [dispatched EXCEPT ![0] = @ + 1]
          /\ stop_watch' = time
          /\ borrowed' = drop_inner
          /\ current_task_cx_ptr' = UNUSED
          /\ next_task_cx_ptr' = 0
          /\ pc' = "first_switch"
          /\ UNCHANGED << num_app, current_task, SWITCH_TIME_START,
                          SWITCH_TIME_COUNT, time, cause, next, completed >>

\* The wrapper __switch up to and including switch::__switch: sample the
\* clock, store the running kernel context in *cur (unless it is the
\* throwaway _unused), load *nxt and return to its ra.
Switch(cur, nxt) ==
  LET stored == IF cur = UNUSED THEN tasks
                ELSE [tasks EXCEPT ![cur].task_cx = saved_cx(cur)]
      ra == stored[nxt].task_cx.ra
  IN /\ SWITCH_TIME_START' = time
     /\ tasks' = stored
     /\ pc' = CASE ra = "__restore" -> "user"
                [] ra = "switch_ret" -> "switch_ret"
                [] OTHER -> "wild"
     /\ cause' = IF ra = "switch_ret" THEN "suspend" ELSE "none"
     /\ current_task_cx_ptr' = NONE
     /\ next_task_cx_ptr' = NONE
     /\ next' = NONE
     /\ UNCHANGED << num_app, current_task, stop_watch, borrowed,
                     SWITCH_TIME_COUNT, time, completed, dispatched >>

\* run_first_task, lines 79-81.
RunFirstTaskSwitch ==
  /\ pc = "first_switch"
  /\ Switch(current_task_cx_ptr, next_task_cx_ptr)

\* The wrapper __switch after switch::__switch returns (line 40), in a task
\* that was switched out earlier, and the returns from run_next_task and
\* suspend_current_and_run_next into the trap handler.
SwitchReturn ==
  /\ pc = "switch_ret"
  /\ SWITCH_TIME_COUNT' = SWITCH_TIME_COUNT + (time - SWITCH_TIME_START)
  /\ pc' = "trap_ret"
  /\ UNCHANGED << num_app, tasks, current_task, stop_watch, borrowed,
                  SWITCH_TIME_START, time, cause, next, current_task_cx_ptr,
                  next_task_cx_ptr, completed, dispatched >>

Causes == {"suspend", "exit", "fault", "other"}

\* Trap entry from user mode with cause c: user_time_end() first, then the
\* dispatch on the cause: a timer interrupt or sys_yield ("suspend"),
\* sys_exit ("exit"), a fault ("fault"), sys_write or sys_get_time ("other").
TrapEntry(c) ==
  /\ pc = "user"
  /\ completed < MaxCompleted
  /\ TotalDispatched < MaxDispatch
  /\ IF borrowed THEN AlreadyBorrowed
     ELSE /\ tasks' = user_time_end(tasks, current_task,
                                    refresh_stop_watch(time, stop_watch))
          /\ stop_watch' = time
          /\ cause' = c
          /\ pc' = CASE c = "suspend" -> "suspend"
                     [] c \in {"exit", "fault"} -> "exit"
                     [] OTHER -> "trap_ret"
          /\ UNCHANGED << num_app, current_task, borrowed, SWITCH_TIME_START,
                          SWITCH_TIME_COUNT, time, next, current_task_cx_ptr,
                          next_task_cx_ptr, completed, dispatched >>

TrapHandler == \E c \in Causes : TrapEntry(c)

\* suspend_current_and_run_next, line 210.
MarkCurrentSuspended ==
  /\ pc = "suspend"
  /\ IF borrowed THEN AlreadyBorrowed
     ELSE /\ tasks' = mark_current_suspended(tasks, current_task,
                                             refresh_stop_watch(time, stop_watch))
          /\ stop_watch' = time
          /\ pc' = "run_next"
          /\ UNCHANGED << num_app, current_task, borrowed, SWITCH_TIME_START,
                          SWITCH_TIME_COUNT, time, cause, next,
                          current_task_cx_ptr, next_task_cx_ptr, completed,
                          dispatched >>

\* exit_current_and_run_exit, line 215.
MarkCurrentExited ==
  /\ pc = "exit"
  /\ IF borrowed THEN AlreadyBorrowed
     ELSE /\ tasks' = mark_current_exited(tasks, current_task,
                                          refresh_stop_watch(time, stop_watch))
          /\ stop_watch' = time
          /\ pc' = "run_next"
          /\ UNCHANGED << num_app, current_task, borrowed, SWITCH_TIME_START,
                          SWITCH_TIME_COUNT, time, cause, next,
                          current_task_cx_ptr, next_task_cx_ptr, completed,
                          dispatched >>

\* run_next_task, line 112: the call of find_next_task and the match on its
\* result.
FindNextTask ==
  /\ pc = "run_next"
  /\ IF borrowed THEN AlreadyBorrowed
     ELSE /\ next' = find_next_task(tasks, current_task, num_app)
          /\ pc' = IF next' = NONE THEN "none_ready" ELSE "some_ready"
          /\ UNCHANGED << num_app, tasks, current_task, stop_watch, borrowed,
                          SWITCH_TIME_START, SWITCH_TIME_COUNT, time, cause,
                          current_task_cx_ptr, next_task_cx_ptr, completed,
                          dispatched >>

\* run_next_task, lines 113-120: borrow, mark next Running, make it current,
\* take the two context pointers, drop the borrow.
RunNextTaskDispatch ==
  /\ pc = "some_ready"
  /\ IF borrowed THEN AlreadyBorrowed
     ELSE /\ tasks' = mark_next_running(tasks, next)
          /\ dispatched' = [dispatched EXCEPT ![next] = @ + 1]
          /\ current_task' = next
          /\ current_task_cx_ptr' = current_task
          /\ next_task_cx_ptr' = next
          /\ borrowed' = drop_inner
          /\ pc' = "switch"
          /\ UNCHANGED << num_app, stop_watch, SWITCH_TIME_START,
                          SWITCH_TIME_COUNT, time, cause, next, completed >>

\* run_next_task, lines 122-124.
RunNextTaskSwitch ==
  /\ pc = "switch"
  /\ Switch(current_task_cx_ptr, next_task_cx_ptr)

\* run_next_task, lines 126-131: no Ready task.  The two lines are printed
\* and the function returns to its caller, which returns to the trap handler.
RunNextTaskNone ==
  /\ pc = "none_ready"
  /\ completed' = completed + 1
  /\ pc' = "trap_ret"
  /\ next' = NONE
  /\ UNCHANGED << num_app, tasks, current_task, stop_watch, borrowed,
                  SWITCH_TIME_START, SWITCH_TIME_COUNT, time, cause,
                  current_task_cx_ptr, next_task_cx_ptr, dispatched >>

\* The rest of the trap handler once the dispatcher's arm returns: sys_exit
\* does not return to user mode (the kernel stops there); every other arm
\* ends with user_time_start() and __restore.
TrapReturn ==
  /\ pc = "trap_ret"
  /\ IF cause = "exit"
     THEN /\ pc' = "sys_exit_returned"
          /\ UNCHANGED << num_app, tasks, current_task, stop_watch, borrowed,
                          SWITCH_TIME_START, SWITCH_TIME_COUNT, time, cause,
                          next, current_task_cx_ptr, next_task_cx_ptr,
                          completed, dispatched >>
     ELSE IF borrowed THEN AlreadyBorrowed
     ELSE /\ tasks' = user_time_start(tasks, current_task,
                                      refresh_stop_watch(time, stop_watch))
          /\ stop_watch' = time
          /\ cause' = "none"
          /\ pc' = "user"
          /\ UNCHANGED << num_app, current_task, borrowed, SWITCH_TIME_START,
                          SWITCH_TIME_COUNT, time, next, current_task_cx_ptr,
                          next_task_cx_ptr, completed, dispatched >>

Next ==
  \/ Tick
  \/ RunFirstTask
  \/ RunFirstTaskSwitch
  \/ SwitchReturn
  \/ TrapHandler
  \/ MarkCurrentSuspended
  \/ MarkCurrentExited
  \/ FindNextTask
  \/ RunNextTaskDispatch
  \/ RunNextTaskSwitch
  \/ RunNextTaskNone
  \/ TrapReturn

Spec == Init /\ [][Next]_vars

\* --------------------------------------------------------- shared predicates

Apps == 0 .. (num_app - 1)

RunningSlots == {i \in Slots : tasks[i].task_status = "Running"}

AllExited == \A i \in Apps : tasks[i].task_status = "Exited"

\* ------------------------------------------------------------------ claims

\* C1: in every reachable state, also between mark_current_* and
\* run_next_task, at most one slot of the task table is Running.
C1_AtMostOneRunning == Cardinality(RunningSlots) <= 1

\* C1's case: a suspended task has been marked Ready and run_next_task has
\* not dispatched yet (no slot is Running), after an earlier switch.
C1_Witness ==
  /\ pc = "run_next"
  /\ cause = "suspend"
  /\ RunningSlots = {}
  /\ TotalDispatched >= 2

\* C2: before run_first_task every slot is Ready or UnInit; while a task
\* executes in user mode and not every task has exited, exactly one slot is
\* Running and it is tasks[current_task].
C2_RunningIsCurrent ==
  /\ pc = "boot" => \A i \in Slots : tasks[i].task_status \in {"Ready", "UnInit"}
  /\ (pc = "user" /\ ~AllExited) => RunningSlots = {current_task}

\* C2's case: a task other than the first runs in user mode after a switch,
\* while an earlier task has exited.
C2_Witness ==
  /\ pc = "user"
  /\ current_task = 1
  /\ tasks[0].task_status = "Exited"
  /\ RunningSlots = {1}

\* C3 (as claimed, for a kernel booted with at least one app): every status
\* change is Ready -> Running at a dispatch, Running -> Ready in
\* mark_current_suspended or Running -> Exited in mark_current_exited; the
\* two mark operations run only when tasks[current_task] is Running; an
\* Exited slot stays Exited.
C3_AsClaimed ==
  [][num_app >= 1 =>
       /\ \A i \in Slots :
            tasks[i].task_status # tasks'[i].task_status =>
              \/ /\ tasks[i].task_status = "Ready"
                 /\ tasks'[i].task_status = "Running"
                 /\ pc \in {"boot", "some_ready"}
              \/ /\ tasks[i].task_status = "Running"
                 /\ tasks'[i].task_status = "Ready"
                 /\ pc = "suspend"
              \/ /\ tasks[i].task_status = "Running"
                 /\ tasks'[i].task_status = "Exited"
                 /\ pc = "exit"
       /\ (pc \in {"suspend", "exit"} /\ pc' = "run_next") =>
            tasks[current_task].task_status = "Running"]_vars

\* What C4 says find_next_task returns for table tk, current slot cur and n
\* apps: none iff no slot in 0..n-1 is Ready, and else the slot at the least
\* offset k in 1..n (offset n is cur itself) from cur that is Ready.
C4_Returns(tk, cur, n, r) ==
  LET ready == {k \in 1 .. n : tk[(cur + k) % n].task_status = "Ready"}
  IN /\ (r = NONE) <=> (\A i \in 0 .. (n - 1) : tk[i].task_status # "Ready")
     /\ r # NONE => \E k \in ready : /\ r = (cur + k) % n
                                     /\ \A j \in ready : k <= j

\* Every task table with 1 <= num_app <= MAX_APP_NUM and current_task <
\* num_app, the slots' statuses arbitrary, with run_next_task about to call
\* find_next_task.
InitFind ==
  /\ num_app \in 1 .. MAX_APP_NUM
  /\ \E st \in [Slots -> TaskStatus] :
       tasks = [i \in Slots |->
                  [task_cx |-> zero_init, task_status |-> st[i],
                   kernel_time |-> 0, user_time |-> 0]]
  /\ current_task \in 0 .. (num_app - 1)
  /\ stop_watch = 0
  /\ borrowed = FALSE
  /\ SWITCH_TIME_START = 0
  /\ SWITCH_TIME_COUNT = 0
  /\ time = 0
  /\ pc = "run_next"
  /\ cause = "suspend"
  /\ next = NONE
  /\ current_task_cx_ptr = NONE
  /\ next_task_cx_ptr = NONE
  /\ completed = 0
  /\ dispatched = [i \in Slots |-> 0]

NextFind == FindNextTask

SpecFind == InitFind /\ [][NextFind]_vars

\* C4: for every task table with 1 <= num_app <= MAX_APP_NUM and
\* current_task < num_app, find_next_task returns the first Ready slot in the
\* order current+1, ..., current+num_app (mod num_app), none iff no slot in
\* 0..num_app is Ready, and leaves the task table as it was.
C4_FindNextTask ==
  [][pc = "run_next" =>
       /\ C4_Returns(tasks, current_task, num_app, next')
       /\ tasks' = tasks
       /\ current_task' = current_task
       /\ stop_watch' = stop_watch]_vars

\* C4's case: the scan has wrapped around all num_app = 3 slots and returned
\* the current slot itself, the only Ready one.
C4_Witness ==
  /\ pc = "some_ready"
  /\ num_app = 3
  /\ next = current_task
  /\ \A i \in Apps : i # current_task => tasks[i].task_status # "Ready"

\* C5: run_next_task takes its no-ready branch only when every slot in
\* 0..num_app is Exited; whenever run_next_task runs (after the suspend's or
\* exit's mark) with a slot that is not Exited, it finds a task and goes on to
\* dispatch it.
C5_NoneOnlyWhenAllExited ==
  /\ pc = "none_ready" => AllExited
  /\ (pc = "run_next" /\ ~AllExited) =>
       find_next_task(tasks, current_task, num_app) # NONE
  /\ pc = "some_ready" => (next \in Apps /\ tasks[next].task_status = "Ready")

\* C5's case: the last of several tasks has exited and run_next_task has
\* found no Ready task.
C5_Witness ==
  /\ pc = "none_ready"
  /\ num_app >= 2
  /\ AllExited

\* C6 (as claimed): when run_next_task finds no Ready task, control does not
\* return to its caller, and user mode is never resumed for an Exited task.
C6_AsClaimed ==
  [][/\ pc = "none_ready" => pc' # "trap_ret"
     /\ pc' = "user" => tasks'[current_task'].task_status # "Exited"]_vars

InitYield == Init /\ num_app >= 1

NextYield ==
  \/ Tick
  \/ RunFirstTask
  \/ RunFirstTaskSwitch
  \/ SwitchReturn
  \/ TrapEntry("suspend")
  \/ MarkCurrentSuspended
  \/ FindNextTask
  \/ RunNextTaskDispatch
  \/ RunNextTaskSwitch
  \/ TrapReturn

SpecYield == InitYield /\ [][NextYield]_vars

\* C8: with tasks that only yield, no task's dispatch count exceeds another
\* task's by 2 or more, and every task has been dispatched once before any
\* task is dispatched a second time.
C8_RoundRobinFair ==
  /\ \A i, j \in Apps : dispatched[i] - dispatched[j] < 2
  /\ (\E i \in Apps : dispatched[i] >= 2) => \A j \in Apps : dispatched[j] >= 1

\* C8's case: three tasks, every one dispatched, the first one a second time.
C8_Witness ==
  /\ num_app = 3
  /\ dispatched[0] = 2
  /\ dispatched[1] = 1
  /\ dispatched[2] = 1
  /\ pc = "user"

\* The first slot cyclically after cur (cur itself last) that is not Exited.
C9_NextNotExited(tk, cur, n) ==
  LET live == {k \in 1 .. n : tk[(cur + k) % n].task_status # "Exited"}
  IN (cur + (CHOOSE k \in live : \A j \in live : k <= j)) % n

\* C9: every dispatch by run_next_task makes current_task the first slot
\* cyclically after the old current one that is not Exited; when no task has
\* exited that is (current_task + 1) mod num_app, so k consecutive suspends
\* from c end at (c + k) mod num_app.
C9_CyclicOrder ==
  [][(pc = "some_ready" /\ pc' = "switch") =>
       /\ current_task' = C9_NextNotExited(tasks, current_task, num_app)
       /\ (\A i \in Apps : tasks[i].task_status # "Exited") =>
            current_task' = (current_task + 1) % num_app]_vars

\* C9's case: a dispatch from slot 0 to slot 2 that skipped the Exited slot 1.
C9_Witness ==
  /\ pc = "switch"
  /\ current_task_cx_ptr = 0
  /\ current_task = 2
  /\ tasks[1].task_status = "Exited"
  /\ tasks[0].task_status = "Ready"

\* C10: the task table is not borrowed when __switch is called, and
\* exclusive_access never meets a held borrow.
C10_NoBorrowAcrossSwitch ==
  /\ pc \in {"first_switch", "switch", "switch_ret", "user"} => ~borrowed
  /\ pc # "already_borrowed"

\* C10's case: a task that was switched out has been switched in again and
\* has taken the borrow again (user_time_start) on its way back to user mode.
C10_Witness ==
  /\ pc = "user"
  /\ cause = "none"
  /\ tasks[current_task].task_cx.ra = "switch_ret"
  /\ dispatched[current_task] >= 2
  /\ ~borrowed

\* C11 (as claimed): with num_app = 0, run_first_task marks no slot Running
\* and does not reach the context switch; it ends in a panic.
C11_AsClaimed ==
  num_app = 0 => /\ RunningSlots = {}
                 /\ pc \in {"boot", "panicked"}

\* C12: with num_app >= 1, run_first_task makes slot 0 Running and nothing
\* else in the table, leaves current_task 0, sets stop_watch to the current
\* time, releases the borrow, calls __switch with the throwaway context and
\* slot 0's context, and control goes to the task, never back to boot.
C12_RunFirstTask ==
  [][/\ (num_app >= 1 /\ pc = "boot" /\ pc' # "boot") =>
          /\ tasks' = [tasks EXCEPT ![0].task_status = "Running"]
          /\ current_task' = 0
          /\ stop_watch' = time
          /\ ~borrowed'
          /\ current_task_cx_ptr' = UNUSED
          /\ next_task_cx_ptr' = 0
          /\ pc' = "first_switch"
     /\ (num_app >= 1 /\ pc = "first_switch" /\ pc' # "first_switch") =>
          /\ tasks' = tasks
          /\ current_task' = 0
          /\ stop_watch' = stop_watch
          /\ pc' = "user"
     /\ pc # "boot" => pc' # "boot"]_vars

\* C12's case: three apps, the first one running in user mode after the
\* first switch, which was made when the clock had already advanced.
C12_Witness ==
  /\ num_app = 3
  /\ pc = "user"
  /\ TotalDispatched = 1
  /\ tasks[0].task_status = "Running"
  /\ tasks[1].task_status = "Ready"
  /\ stop_watch >= 1

\* C13: with a clock that never goes back, no task's user_time or
\* kernel_time ever decreases, and the stop watch is never ahead of the clock
\* (refresh_stop_watch's difference is never negative).
C13_TimeMonotonic ==
  [][/\ \A i \in Slots : /\ tasks'[i].user_time >= tasks[i].user_time
                        /\ tasks'[i].kernel_time >= tasks[i].kernel_time
     /\ stop_watch' <= time'
     /\ refresh_stop_watch(time', stop_watch') >= 0]_vars

\* C13's case: a task that has been credited both user and kernel time.
C13_Witness ==
  \E i \in Apps : tasks[i].user_time >= 1 /\ tasks[i].kernel_time >= 1

\* C14 (as claimed): __switch is never called by run_next_task with the same
\* slot as current and as next.
C14_AsClaimed ==
  pc = "switch" => current_task_cx_ptr # next_task_cx_ptr

\* C14 (amended): run_next_task calls __switch with the same slot as current
\* and next exactly when a suspended task is the only task that is not Exited;
\* in every other call the two slots differ.
C14_SameOnlyWhenAlone ==
  pc = "switch" =>
    ((current_task_cx_ptr = next_task_cx_ptr) <=>
       (/\ cause = "suspend"
        /\ \A i \in Apps : i # current_task_cx_ptr =>
                             tasks[i].task_status = "Exited"))

\* C14's case: of two apps one has exited, the other one yields and is
\* switched to itself.
C14_Witness ==
  /\ pc = "switch"
  /\ num_app = 2
  /\ current_task_cx_ptr = next_task_cx_ptr

\* The sum of all the time credited to tasks.
RECURSIVE C15_Credited(_)
C15_Credited(n) ==
  IF n < 0 THEN 0
  ELSE tasks[n].user_time + tasks[n].kernel_time + C15_Credited(n - 1)

RECURSIVE C15_CreditedNext(_)
C15_CreditedNext(n) ==
  IF n < 0 THEN 0
  ELSE tasks'[n].user_time + tasks'[n].kernel_time + C15_CreditedNext(n - 1)

\* C15: nothing is credited before run_first_task's snapshot T0, and from
\* then on every step credits to the tasks exactly what it advances the stop
\* watch by, so the credited total is always stop_watch - T0.
C15_TimeConserved ==
  [][IF pc = "boot"
     THEN C15_Credited(MAX_APP_NUM - 1) = 0 /\ C15_CreditedNext(MAX_APP_NUM - 1) = 0
     ELSE C15_CreditedNext(MAX_APP_NUM - 1) - C15_Credited(MAX_APP_NUM - 1)
            = stop_watch' - stop_watch]_vars

\* C15's case: two tasks have been credited time, across a context switch.
C15_Witness ==
  /\ tasks[0].user_time + tasks[0].kernel_time >= 1
  /\ tasks[1].user_time + tasks[1].kernel_time >= 1
  /\ C15_Credited(MAX_APP_NUM - 1) = stop_watch

\* C16 (as claimed): every entry into user mode is immediately preceded by
\* an accounting boundary: the stop watch shows the current time.
C16_AsClaimed ==
  [][(num_app >= 1 /\ pc # "user" /\ pc' = "user") => stop_watch' = time']_vars

\* C17: a task's saved context is written by the switch only, and only the
\* context of the task that is switched out: every other step leaves every
\* task_cx as it is, and a switch leaves the context of every slot other than
\* the current one as it is.
C17_ContextFrame ==
  [][/\ pc \notin {"switch", "first_switch"} =>
          \A i \in Slots : tasks'[i].task_cx = tasks[i].task_cx
     /\ pc \in {"switch", "first_switch"} =>
          \A i \in Slots : i # current_task_cx_ptr =>
                             tasks'[i].task_cx = tasks[i].task_cx]_vars

\* C17's case: slot 0 was switched out (its context was stored) and slot 1
\* runs from its boot context, which the switch left alone.
C17_Witness ==
  /\ pc = "user"
  /\ current_task = 1
  /\ tasks[0].task_cx = saved_cx(0)
  /\ tasks[1].task_cx = goto_restore(init_app_cx(1))
  /\ tasks[0].task_status = "Exited"

\* C18: user_time_end (the trap entry) changes only the user_time of the
\* current task and the stop watch, user_time_start (the trap return) only
\* its kernel_time and the stop watch; after either the stop watch shows the
\* current time.
C18_AccountingFrame ==
  [][/\ (pc = "user" /\ pc' \notin {"user", "already_borrowed"}) =>
          /\ tasks' = [tasks EXCEPT ![current_task].user_time =
                                      @ + (time - stop_watch)]
          /\ current_task' = current_task
          /\ stop_watch' = time
     /\ (pc = "trap_ret" /\ pc' = "user") =>
          /\ tasks' = [tasks EXCEPT ![current_task].kernel_time =
                                      @ + (time - stop_watch)]
          /\ current_task' = current_task
          /\ stop_watch' = time]_vars

\* C18's case: back in user mode after a trap in which both user_time_end
\* and user_time_start credited time to the current task.
C18_Witness ==
  /\ pc = "user"
  /\ tasks[current_task].user_time >= 1
  /\ tasks[current_task].kernel_time >= 1
  /\ stop_watch = time

\* C19 (as claimed): every call of the wrapper __switch takes its
\* post-switch sample: the switch is followed by the wrapper's line 40.
C19_AsClaimed ==
  [][(num_app >= 1 /\ pc \in {"switch", "first_switch"} /\ pc' # pc) =>
       pc' = "switch_ret"]_vars

\* C20: with num_app >= 1, current_task < num_app, num_app never changes,
\* and every slot from num_app on stays UnInit with a zero context and zero
\* counters.
C20_UnusedSlots ==
  [][num_app >= 1 =>
       /\ num_app' = num_app
       /\ current_task < num_app /\ current_task' < num_app
       /\ \A i \in Slots : i >= num_app =>
            /\ tasks[i] = [task_cx |-> zero_init, task_status |-> "UnInit",
                           kernel_time |-> 0, user_time |-> 0]
            /\ tasks'[i] = tasks[i]
            /\ dispatched'[i] = 0]_vars

\* C20's case: two apps in a table of three; the scheduler has wrapped
\* around from slot 1 to slot 0 and slot 2 was never dispatched.
C20_Witness ==
  /\ num_app = 2
  /\ MAX_APP_NUM > 2
  /\ pc = "user"
  /\ current_task = 0
  /\ dispatched[0] >= 2
  /\ dispatched[1] >= 1

====
